---- MODULE Spec2Model ----
(***************************************************************************)
(* Quota / usage ledger of the metered translation API.                    *)
(*                                                                         *)
(* The store (Supabase) holds three tables: users, usage_logs and          *)
(* user_monthly_usage.  Every translate request is a process that runs the *)
(* handler one store call (or provider call) at a time; between two calls  *)
(* any other request, or the clock, may take a step: the handlers run in   *)
(* separate workers that share nothing but the store.  The computation     *)
(* between two calls is local and is part of the step of the call after it.*)
(* A store write that raises is modelled as not applied.                   *)
(* A text is modelled by its number of characters, the only thing the      *)
(* ledger reads of it.                                                     *)
(***************************************************************************)
EXTENDS Integers, Sequences, FiniteSets, TLC

\* ------------------------------------------------------------------ bounds
NReq == 2            \* number of translate requests
MaxChars == 12       \* len(text) of the longest text of the estimator runs

Reqs == 1..NReq
TextLens == {120, 150}         \* len(text) of the requests
UserIds == {1}                 \* users.id of the account of the requests
InitQuota == {1000}            \* monthly_quota_tokens of the account
InitUsed == {900, 950}         \* used_tokens_this_period at the start

\* ------------------------------------------------------------------- dates
\* dt.date
Date(y, m, d) == [year |-> y, month |-> m, day |-> d]

\* the dates the clock shows: a day of the month the account is in at the start,
\* and a day of the next month (of the next year)
Dates == {Date(2025, 12, 20), Date(2026, 1, 15)}

\* date.isoformat(): the text "YYYY-MM-DD", modelled as the triple of its fields
isoformat(dte) == <<dte.year, dte.month, dte.day>>

\* dt.date.fromisoformat
fromisoformat(s) == Date(s[1], s[2], s[3])

\* a < b on dates
DateBefore(a, b) ==
    \/ a.year < b.year
    \/ a.year = b.year /\ a.month < b.month
    \/ a.year = b.year /\ a.month = b.month /\ a.day < b.day

\* billing_period_start of the account at the start
FirstPeriod == Date(2025, 12, 1)

\* the date at the start
FirstDate == Date(2025, 12, 20)

\* ------------------------------------------------------------- pure helpers
Max(a, b) == IF a >= b THEN a ELSE b

\* a variant of CeilDiv3Halves that rounds down
FloorDiv3Halves(chars) == (2 * chars) \div 3

\* math.ceil(chars / 1.5) for a non-negative integer chars
CeilDiv3Halves(chars) == (2 * chars + 2) \div 3

\* estimate_tokens(text), text given by its length
estimate_tokens(chars) == Max(1, CeilDiv3Halves(chars))

\* sum of estimated_tokens over a sequence of usage_logs rows
RECURSIVE SumTokens(_)
SumTokens(rows) ==
    IF rows = <<>> THEN 0 ELSE Head(rows).estimated_tokens + SumTokens(Tail(rows))

\* ------------------------------------------------------------------- state
VARIABLES
    today,               \* dt.date.today()
    users,               \* table users: row id -> row
    usage_logs,          \* table usage_logs: sequence of rows
    user_monthly_usage,  \* table user_monthly_usage: sequence of rows, id = index
    pc,                  \* position of each request in the handler
    text,                \* len(text) of each request
    user,                \* the AuthedUser of each request
    est_tokens,          \* local est_tokens
    remaining,           \* local remaining
    new_used,            \* local new_used
    existing,            \* local existing (the rows of the select)
    response,            \* what the caller receives
    writes               \* history: the store writes each request issued, in order

store == <<users, usage_logs, user_monthly_usage>>
locals == <<text, user, est_tokens, remaining, new_used, existing>>
vars == <<today, users, usage_logs, user_monthly_usage, pc, text, user, est_tokens,
          remaining, new_used, existing, response, writes>>

NoUser == [user_row_id |-> 0, monthly_quota_tokens |-> 0,
           used_tokens_this_period |-> 0, billing_period_start |-> FirstPeriod]

NoResponse == [kind |-> "none", estimated_tokens |-> 0, remaining_tokens |-> 0,
               remaining |-> 0, requested |-> 0]

Terminal == {"auth_failed", "rejected", "provider_failed", "persist_failed",
             "committed"}

InFlight(r) == pc[r] \notin ({"start"} \cup Terminal)

\* a usage_logs row; request and period are history fields (the request that
\* inserted it, 0 for a row of the start, and the period_start of that request)
LogRow(uid, chars, est, r, period) ==
    [user_id |-> uid, input_chars |-> chars, estimated_tokens |-> est,
     request |-> r, period |-> period]

\* a user_monthly_usage row
UsageRow(id, uid, period, tokens, requests, at) ==
    [id |-> id, user_id |-> uid, period_start |-> period, total_tokens |-> tokens,
     total_requests |-> requests, updated_at |-> at]

\* the ledger of an account that used `used` tokens in the period FirstPeriod:
\* one earlier request of that size, logged and aggregated
InitLogs(id, used) ==
    IF used = 0 THEN <<>>
    ELSE <<LogRow(id, (3 * used) \div 2, used, 0, isoformat(FirstPeriod))>>

InitUsage(id, used) ==
    IF used = 0 THEN <<>>
    ELSE <<UsageRow(1, id, isoformat(FirstPeriod), used, 1, isoformat(FirstPeriod))>>

Init ==
    /\ today = FirstDate
    /\ \E id \in UserIds, q \in InitQuota, u \in InitUsed :
        /\ users = [i \in {id} |->
                      [id |-> i, monthly_quota_tokens |-> q,
                       used_tokens_this_period |-> u,
                       billing_period_start |-> isoformat(FirstPeriod)]]
        /\ usage_logs = InitLogs(id, u)
        /\ user_monthly_usage = InitUsage(id, u)
    /\ pc = [r \in Reqs |-> "start"]
    /\ text = [r \in Reqs |-> 0]
    /\ user = [r \in Reqs |-> NoUser]
    /\ est_tokens = [r \in Reqs |-> 0]
    /\ remaining = [r \in Reqs |-> 0]
    /\ new_used = [r \in Reqs |-> 0]
    /\ existing = [r \in Reqs |-> <<>>]
    /\ response = [r \in Reqs |-> NoResponse]
    /\ writes = [r \in Reqs |-> <<>>]

\* history: request r issued a store write, which succeeded (ok) or raised
Write(table, op, tokens, ok) == [table |-> table, op |-> op, tokens |-> tokens, ok |-> ok]

Wrote(r, table, op, tokens) ==
    writes' = [writes EXCEPT ![r] = Append(@, Write(table, op, tokens, TRUE))]

Raised(r, table, op, tokens) ==
    writes' = [writes EXCEPT ![r] = Append(@, Write(table, op, tokens, FALSE))]

\* the handler of request r ends (it returns or raises): the caller gets resp and
\* the frame of the handler, with its locals, is gone
Return(r, at, resp) ==
    /\ pc' = [pc EXCEPT ![r] = at]
    /\ response' = [response EXCEPT ![r] = resp]
    /\ text' = [text EXCEPT ![r] = 0]
    /\ user' = [user EXCEPT ![r] = NoUser]
    /\ est_tokens' = [est_tokens EXCEPT ![r] = 0]
    /\ remaining' = [remaining EXCEPT ![r] = 0]
    /\ new_used' = [new_used EXCEPT ![r] = 0]
    /\ existing' = [existing EXCEPT ![r] = <<>>]

\* a variant of PersistenceFailure that wraps the exception in the RuntimeError of
\* the provider
PersistenceFailureAsProvider(r) ==
    Return(r, "persist_failed", [NoResponse EXCEPT !.kind = "provider"])

\* an exception of the store client leaves the handler
PersistenceFailure(r) ==
    Return(r, "persist_failed", [NoResponse EXCEPT !.kind = "persistence"])

\* ------------------------------------------------------------------- clock
Tick ==
    /\ \E d \in Dates : DateBefore(today, d) /\ today' = d
    /\ UNCHANGED <<store, pc, locals, response, writes>>

\* --------------------------------------------------------- get_current_user
\* AuthedUser(...) built from the users row
AuthedUser(row) ==
    [user_row_id |-> row.id,
     monthly_quota_tokens |-> row.monthly_quota_tokens,
     used_tokens_this_period |-> row.used_tokens_this_period,
     billing_period_start |-> fromisoformat(row.billing_period_start)]

\* the request arrives with its text and its identity; the account row is read.
\* Requests are numbered in the order they arrive.
GetCurrentUser(r) ==
    /\ pc[r] = "start"
    /\ \A q \in Reqs : q < r => pc[q] # "start"
    /\ \E n \in TextLens, id \in DOMAIN users :
        /\ text' = [text EXCEPT ![r] = n]
        /\ user' = [user EXCEPT ![r] = AuthedUser(users[id])]
    /\ pc' = [pc EXCEPT ![r] = "authed"]
    /\ UNCHANGED <<today, store, est_tokens, remaining, new_used, existing,
                   response, writes>>

\* what the Authorization header of a request can be
Headers == {"missing", "not_bearer", "bearer_rejected", "bearer_valid"}

\* HTTPException(status_code=401): the error of get_current_user
AuthFailure == [NoResponse EXCEPT !.kind = "auth"]

\* a variant of AuthFails that looks the account up, and creates it, before it
\* raises
AuthFailsAfterProvision(r) ==
    /\ pc[r] = "start"
    /\ \A q \in Reqs : q < r => pc[q] # "start"
    /\ LET new == Cardinality(DOMAIN users) + 1
       IN  users' = [i \in DOMAIN users \cup {new} |->
                       IF i \in DOMAIN users THEN users[i]
                       ELSE [id |-> i, monthly_quota_tokens |-> 50000,
                             used_tokens_this_period |-> 0,
                             billing_period_start |-> isoformat(FirstPeriod)]]
    /\ Return(r, "auth_failed", AuthFailure)
    /\ UNCHANGED <<today, usage_logs, user_monthly_usage, writes>>

\* get_current_user raises: the header is missing or no Bearer credential, or
\* the auth provider does not answer 200.  No table has been read or written.
AuthFails(r) ==
    /\ pc[r] = "start"
    /\ \A q \in Reqs : q < r => pc[q] # "start"
    /\ \E h \in Headers \ {"bearer_valid"} :
         Return(r, "auth_failed", AuthFailure)
    /\ UNCHANGED <<today, store, writes>>

\* ------------------------------------- get_current_user with its account lookup
\* auth_user["id"] of the requests, and the identity of another account
AuthUserId == "auth-1"
OtherAuthUserId == "auth-2"

\* a users row with its auth_user_id
UserRow(id, auth, quota, used, bps) ==
    [id |-> id, auth_user_id |-> auth, monthly_quota_tokens |-> quota,
     used_tokens_this_period |-> used, billing_period_start |-> bps]

\* the row the store returns for insert(profile): the columns the profile does not
\* give take the defaults of the table
ProvisionedRow(id, auth, tdy) ==
    UserRow(id, auth, 50000, 0, isoformat(Date(tdy.year, tdy.month, 1)))

\* select("*").eq("auth_user_id", auth) on users: the ids of the rows
select_users(tbl, auth) == {i \in DOMAIN tbl : tbl[i].auth_user_id = auth}

\* the users tables of the start: the account of the requests exists or not, and
\* so does another account
InitUsers ==
    {<<>>,
     <<UserRow(1, AuthUserId, 1000, 900, isoformat(FirstPeriod))>>,
     <<UserRow(1, OtherAuthUserId, 1000, 950, isoformat(FirstPeriod))>>,
     <<UserRow(1, OtherAuthUserId, 1000, 950, isoformat(FirstPeriod)),
       UserRow(2, AuthUserId, 1000, 900, isoformat(FirstPeriod))>>}

InitAccounts ==
    /\ today = FirstDate
    /\ users \in InitUsers
    /\ usage_logs = <<>>
    /\ user_monthly_usage = <<>>
    /\ pc = [r \in Reqs |-> "start"]
    /\ text = [r \in Reqs |-> 0]
    /\ user = [r \in Reqs |-> NoUser]
    /\ est_tokens = [r \in Reqs |-> 0]
    /\ remaining = [r \in Reqs |-> 0]
    /\ new_used = [r \in Reqs |-> 0]
    /\ existing = [r \in Reqs |-> <<>>]
    /\ response = [r \in Reqs |-> NoResponse]
    /\ writes = [r \in Reqs |-> <<>>]

\* the token is valid; data = select on users by auth_user_id; if data: row =
\* data[0] (the store gives the rows in no particular order) and the AuthedUser
\* is built from it
SelectUser(r) ==
    /\ pc[r] = "start"
    /\ \A q \in Reqs : q < r => pc[q] # "start"
    /\ LET data == select_users(users, AuthUserId)
       IN  IF data # {}
           THEN /\ \E i \in data : user' = [user EXCEPT ![r] = AuthedUser(users[i])]
                /\ pc' = [pc EXCEPT ![r] = "authed"]
           ELSE /\ pc' = [pc EXCEPT ![r] = "absent"]
                /\ user' = user
    /\ UNCHANGED <<today, store, text, est_tokens, remaining, new_used, existing,
                   response, writes>>

\* else: row = insert(profile).data[0]; the row gets the next id
InsertUser(r) ==
    /\ pc[r] = "absent"
    /\ LET id == Cardinality(DOMAIN users) + 1
           row == ProvisionedRow(id, AuthUserId, today)
       IN  /\ users' = [i \in DOMAIN users \cup {id} |->
                           IF i = id THEN row ELSE users[i]]
           /\ user' = [user EXCEPT ![r] = AuthedUser(row)]
    /\ Wrote(r, "users", "insert", 0)
    /\ pc' = [pc EXCEPT ![r] = "authed"]
    /\ UNCHANGED <<today, usage_logs, user_monthly_usage, text, est_tokens,
                   remaining, new_used, existing, response>>

\* the insert raises: nothing is written
InsertUserFails(r) ==
    /\ pc[r] = "absent"
    /\ Raised(r, "users", "insert", 0)
    /\ PersistenceFailure(r)
    /\ UNCHANGED <<today, store>>

\* --------------------------------------------------- refresh_billing_period
\* a variant of PeriodChanged that compares the whole dates
DateChanged(tdy, bps) == tdy # bps

\* the test of refresh_billing_period: the month has changed
PeriodChanged(tdy, bps) == <<tdy.year, tdy.month>> # <<bps.year, bps.month>>

\* the users row after the reset
ResetRow(row, tdy) ==
    [row EXCEPT !.used_tokens_this_period = 0, !.billing_period_start = isoformat(tdy)]

\* a variant of ResetUser that leaves used_tokens_this_period of the snapshot
ResetUserKeepsUsed(u, row, tdy) ==
    [u EXCEPT !.billing_period_start = tdy,
              !.monthly_quota_tokens = row.monthly_quota_tokens]

\* the AuthedUser after the reset; row is the updated row the store returns
ResetUser(u, row, tdy) ==
    [u EXCEPT !.used_tokens_this_period = 0,
              !.billing_period_start = tdy,
              !.monthly_quota_tokens = row.monthly_quota_tokens]

\* refresh_billing_period(sb, user) on the date tdy: the user it returns, the users
\* table it leaves, and whether it wrote
refresh_billing_period(u, tbl, tdy) ==
    IF PeriodChanged(tdy, u.billing_period_start)
    THEN LET row == ResetRow(tbl[u.user_row_id], tdy)
         IN  [user |-> ResetUser(u, row, tdy),
              users |-> [tbl EXCEPT ![u.user_row_id] = row],
              wrote |-> TRUE]
    ELSE [user |-> u, users |-> tbl, wrote |-> FALSE]

\* a variant of period_start that takes billing_period_start as it is
period_start_as_stored(u) == isoformat(u.billing_period_start)

\* period_start = dt.date(bps.year, bps.month, 1).isoformat()
period_start(u) ==
    isoformat(Date(u.billing_period_start.year, u.billing_period_start.month, 1))

\* select("*").eq("user_id", uid).eq("period_start", period) on user_monthly_usage
select_usage(tbl, uid, period) ==
    SelectSeq(tbl, LAMBDA row : row.user_id = uid /\ row.period_start = period)

\* a variant of RefreshBillingPeriod that takes a lock on the account, which a
\* request that ends with a provider failure never gives back
RefreshBillingPeriodLocked(r) ==
    /\ pc[r] = "authed"
    /\ \A q \in Reqs \ {r} :
         pc[q] \notin {"refreshed", "admitted", "provider_ok", "logged", "selected",
                       "aggregated", "provider_failed"}
    /\ LET res == refresh_billing_period(user[r], users, today)
       IN  /\ users' = res.users
           /\ user' = [user EXCEPT ![r] = res.user]
           /\ writes' = [writes EXCEPT ![r] =
                           IF res.wrote
                           THEN Append(@, Write("users", "reset", 0, TRUE))
                           ELSE @]
    /\ pc' = [pc EXCEPT ![r] = "refreshed"]
    /\ UNCHANGED <<today, usage_logs, user_monthly_usage, text, est_tokens,
                   remaining, new_used, existing, response>>

RefreshBillingPeriod(r) ==
    /\ pc[r] = "authed"
    /\ LET res == refresh_billing_period(user[r], users, today)
       IN  /\ users' = res.users
           /\ user' = [user EXCEPT ![r] = res.user]
           /\ writes' = [writes EXCEPT ![r] =
                           IF res.wrote
                           THEN Append(@, Write("users", "reset", 0, TRUE))
                           ELSE @]
    /\ pc' = [pc EXCEPT ![r] = "refreshed"]
    /\ UNCHANGED <<today, usage_logs, user_monthly_usage, text, est_tokens,
                   remaining, new_used, existing, response>>

\* the update of the reset raises: nothing is written
RefreshFails(r) ==
    /\ pc[r] = "authed"
    /\ PeriodChanged(today, user[r].billing_period_start)
    /\ Raised(r, "users", "reset", 0)
    /\ PersistenceFailure(r)
    /\ UNCHANGED <<today, store>>

\* ------------------------------------------------------------ get_usage
\* the dict of get_usage_info
UsageInfo(u) ==
    [kind |-> "usage",
     monthly_quota_tokens |-> u.monthly_quota_tokens,
     used_tokens_this_period |-> u.used_tokens_this_period,
     billing_period_start |-> isoformat(u.billing_period_start),
     remaining_tokens |-> u.monthly_quota_tokens - u.used_tokens_this_period]

\* a variant of GetUsage that refreshes the billing period before it answers
GetUsageRefreshed(r) ==
    /\ pc[r] = "authed"
    /\ LET res == refresh_billing_period(user[r], users, today)
       IN  /\ users' = res.users
           /\ Return(r, "usage_returned", UsageInfo(res.user))
    /\ UNCHANGED <<today, usage_logs, user_monthly_usage, writes>>

\* GET /me/usage: after get_current_user, the answer is built from the AuthedUser
GetUsage(r) ==
    /\ pc[r] = "authed"
    /\ Return(r, "usage_returned", UsageInfo(user[r]))
    /\ UNCHANGED <<today, store, writes>>

\* usage queries of one identity, concurrently
NextAccounts ==
    \/ Tick
    \/ \E r \in Reqs :
        \/ SelectUser(r)
        \/ InsertUser(r)
        \/ InsertUserFails(r)
        \/ GetUsage(r)

SpecAccounts == InitAccounts /\ [][NextAccounts]_vars

\* --------------------------------------------------------------- quota gate
\* a variant of Remaining that forgets the tokens used
RemainingOfQuota(u) == u.monthly_quota_tokens

\* remaining = user.monthly_quota_tokens - user.used_tokens_this_period
Remaining(u) == u.monthly_quota_tokens - u.used_tokens_this_period

\* a variant of QuotaExceeded that also rejects a cost equal to what remains
QuotaExceededOrEqual(est, rem) == est >= rem

\* if est_tokens > remaining: raise
QuotaExceeded(est, rem) == est > rem

\* the error of the quota gate, with the two figures of its message
QuotaInsufficient(rem, est) ==
    [NoResponse EXCEPT !.kind = "quota", !.remaining = rem, !.requested = est]

Admit(r) ==
    /\ pc[r] = "refreshed"
    /\ ~QuotaExceeded(estimate_tokens(text[r]), Remaining(user[r]))
    /\ est_tokens' = [est_tokens EXCEPT ![r] = estimate_tokens(text[r])]
    /\ remaining' = [remaining EXCEPT ![r] = Remaining(user[r])]
    /\ pc' = [pc EXCEPT ![r] = "admitted"]
    /\ UNCHANGED <<today, store, text, user, new_used, existing, response, writes>>

Reject(r) ==
    /\ pc[r] = "refreshed"
    /\ QuotaExceeded(estimate_tokens(text[r]), Remaining(user[r]))
    /\ Return(r, "rejected",
              QuotaInsufficient(Remaining(user[r]), estimate_tokens(text[r])))
    /\ UNCHANGED <<today, store, writes>>

\* ----------------------------------------------------------------- provider
\* a variant of ProviderSucceeds that calls the provider before the quota gate too
ProviderBeforeGate(r) ==
    /\ pc[r] \in {"refreshed", "admitted"}
    /\ est_tokens' = [est_tokens EXCEPT ![r] = estimate_tokens(text[r])]
    /\ new_used' = [new_used EXCEPT ![r] =
                      user[r].used_tokens_this_period + estimate_tokens(text[r])]
    /\ pc' = [pc EXCEPT ![r] = "provider_ok"]
    /\ UNCHANGED <<today, store, text, user, remaining, existing, response, writes>>

\* translate_text_sync returns ok; new_used is computed
ProviderSucceeds(r) ==
    /\ pc[r] = "admitted"
    /\ new_used' = [new_used EXCEPT ![r] =
                      user[r].used_tokens_this_period + est_tokens[r]]
    /\ pc' = [pc EXCEPT ![r] = "provider_ok"]
    /\ UNCHANGED <<today, store, text, user, est_tokens, remaining, existing,
                   response, writes>>

\* a variant of ProviderFails that logs the request before it looks at ok
ProviderFailsAfterLog(r) ==
    /\ pc[r] = "admitted"
    /\ usage_logs' = Append(usage_logs,
                            LogRow(user[r].user_row_id, text[r], est_tokens[r], r,
                                   period_start(user[r])))
    /\ Return(r, "provider_failed", [NoResponse EXCEPT !.kind = "provider"])
    /\ UNCHANGED <<today, users, user_monthly_usage, writes>>

\* translate_text_sync returns not ok (error, timeout, cancellation): raise
ProviderFails(r) ==
    /\ pc[r] = "admitted"
    /\ Return(r, "provider_failed", [NoResponse EXCEPT !.kind = "provider"])
    /\ UNCHANGED <<today, store, writes>>

\* ------------------------------------------------------------------- ledger
\* a variant of InsertUsageLog that inserts the row twice
InsertUsageLogTwice(r) ==
    /\ pc[r] = "provider_ok"
    /\ LET row == LogRow(user[r].user_row_id, text[r], est_tokens[r], r,
                         period_start(user[r]))
       IN  usage_logs' = usage_logs \o <<row, row>>
    /\ Wrote(r, "usage_logs", "insert", est_tokens[r])
    /\ pc' = [pc EXCEPT ![r] = "logged"]
    /\ UNCHANGED <<today, users, user_monthly_usage, locals, response>>

\* sb.table("usage_logs").insert(...)
InsertUsageLog(r) ==
    /\ pc[r] = "provider_ok"
    /\ usage_logs' = Append(usage_logs,
                            LogRow(user[r].user_row_id, text[r], est_tokens[r], r,
                                   period_start(user[r])))
    /\ Wrote(r, "usage_logs", "insert", est_tokens[r])
    /\ pc' = [pc EXCEPT ![r] = "logged"]
    /\ UNCHANGED <<today, users, user_monthly_usage, locals, response>>

\* existing = sb.table("user_monthly_usage").select("*")...execute().data
SelectMonthlyUsage(r) ==
    /\ pc[r] = "logged"
    /\ existing' = [existing EXCEPT ![r] =
                      select_usage(user_monthly_usage, user[r].user_row_id,
                                   period_start(user[r]))]
    /\ pc' = [pc EXCEPT ![r] = "selected"]
    /\ UNCHANGED <<today, store, text, user, est_tokens, remaining, new_used,
                   response, writes>>

\* a variant of UpdatedUsage that does not count the request
UpdatedUsageTokensOnly(cur, row, est, tdy) ==
    [cur EXCEPT !.total_tokens = row.total_tokens + est,
                !.updated_at = isoformat(tdy)]

\* the row the update leaves in place of the stored row cur; row is the row read
UpdatedUsage(cur, row, est, tdy) ==
    [cur EXCEPT !.total_tokens = row.total_tokens + est,
                !.total_requests = row.total_requests + 1,
                !.updated_at = isoformat(tdy)]

\* if existing: update(...).eq("id", row["id"])
UpdateMonthlyUsage(r) ==
    /\ pc[r] = "selected"
    /\ existing[r] # <<>>
    /\ LET row == existing[r][1]
       IN  user_monthly_usage' =
             [user_monthly_usage EXCEPT ![row.id] =
                UpdatedUsage(@, row, est_tokens[r], today)]
    /\ Wrote(r, "user_monthly_usage", "update", est_tokens[r])
    /\ pc' = [pc EXCEPT ![r] = "aggregated"]
    /\ UNCHANGED <<today, users, usage_logs, locals, response>>

\* else: insert a fresh row (updated_at is the default of the store)
InsertMonthlyUsage(r) ==
    /\ pc[r] = "selected"
    /\ existing[r] = <<>>
    /\ user_monthly_usage' =
         Append(user_monthly_usage,
                UsageRow(Len(user_monthly_usage) + 1, user[r].user_row_id,
                         period_start(user[r]), est_tokens[r], 1, isoformat(today)))
    /\ Wrote(r, "user_monthly_usage", "insert", est_tokens[r])
    /\ pc' = [pc EXCEPT ![r] = "aggregated"]
    /\ UNCHANGED <<today, users, usage_logs, locals, response>>

\* a variant of StoredUsed that forgets the estimate
StoredUsedSnapshot(stored, snapshot, est) == snapshot

\* a variant of StoredUsed that adds the estimate to what is stored
StoredUsedIncrement(stored, snapshot, est) == stored + est

\* the value the account update leaves in used_tokens_this_period: the new_used of
\* the request (its snapshot plus its estimate), whatever is stored
StoredUsed(stored, snapshot, est) == snapshot + est

\* the response of a committed request
TranslateResponse(est, remaining_tokens) ==
    [NoResponse EXCEPT !.kind = "ok", !.estimated_tokens = est,
                       !.remaining_tokens = remaining_tokens]

\* what the HTTP caller receives for the way the handler ended: the status code
\* and the kind of body.  The route turns the ValueError of the quota gate into
\* 402 and the RuntimeError of the provider into 500 with its message; the
\* HTTPException of get_current_user is a 401; an exception of the store client
\* is caught by nobody and becomes the 500 of the server.
http_response(resp) ==
    CASE resp.kind = "ok" -> [status_code |-> 200, body |-> "TranslateResponse"]
      [] resp.kind = "auth" -> [status_code |-> 401, body |-> "detail: authorization"]
      [] resp.kind = "quota" -> [status_code |-> 402, body |-> "detail: quota"]
      [] resp.kind = "provider" -> [status_code |-> 500, body |-> "detail: provider"]
      [] resp.kind = "persistence" ->
           [status_code |-> 500, body |-> "Internal Server Error"]
      [] OTHER -> [status_code |-> 0, body |-> ""]

\* sb.table("users").update({"used_tokens_this_period": new_used}), and return
UpdateUser(r) ==
    /\ pc[r] = "aggregated"
    /\ users' = [users EXCEPT ![user[r].user_row_id].used_tokens_this_period =
                   StoredUsed(@, user[r].used_tokens_this_period, est_tokens[r])]
    /\ Wrote(r, "users", "update", new_used[r])
    /\ Return(r, "committed",
              TranslateResponse(est_tokens[r],
                                user[r].monthly_quota_tokens - new_used[r]))
    /\ UNCHANGED <<today, usage_logs, user_monthly_usage>>

\* a variant of WriteFails that swallows the exception of the log insert or of the
\* aggregate upsert and goes on with the commit
WriteFailsSwallowed(r) ==
    /\ pc[r] \in {"provider_ok", "selected"}
    /\ IF pc[r] = "provider_ok"
       THEN Raised(r, "usage_logs", "insert", est_tokens[r])
       ELSE Raised(r, "user_monthly_usage",
                   IF existing[r] # <<>> THEN "update" ELSE "insert", est_tokens[r])
    /\ pc' = [pc EXCEPT ![r] = IF pc[r] = "provider_ok" THEN "logged" ELSE "aggregated"]
    /\ UNCHANGED <<today, store, locals, response>>

\* a write of the commit raises: nothing is written
WriteFails(r) ==
    /\ pc[r] \in {"provider_ok", "selected", "aggregated"}
    /\ CASE pc[r] = "provider_ok" -> Raised(r, "usage_logs", "insert", est_tokens[r])
         [] pc[r] = "selected" ->
              Raised(r, "user_monthly_usage",
                     IF existing[r] # <<>> THEN "update" ELSE "insert", est_tokens[r])
         [] pc[r] = "aggregated" -> Raised(r, "users", "update", new_used[r])
    /\ PersistenceFailure(r)
    /\ UNCHANGED <<today, store>>

\* ------------------------------------------------------------ specification
Next ==
    \/ Tick
    \/ \E r \in Reqs :
        \/ GetCurrentUser(r)
        \/ RefreshBillingPeriod(r)
        \/ RefreshFails(r)
        \/ Admit(r)
        \/ Reject(r)
        \/ ProviderSucceeds(r)
        \/ ProviderFails(r)
        \/ InsertUsageLog(r)
        \/ SelectMonthlyUsage(r)
        \/ UpdateMonthlyUsage(r)
        \/ InsertMonthlyUsage(r)
        \/ UpdateUser(r)
        \/ WriteFails(r)

Spec == Init /\ [][Next]_vars

\* the requests one at a time: a request arrives when no other is in flight
Arrive(r) ==
    /\ \A q \in Reqs : ~InFlight(q)
    /\ GetCurrentUser(r)

NextSeq ==
    \/ Tick
    \/ \E r \in Reqs :
        \/ Arrive(r)
        \/ RefreshBillingPeriod(r)
        \/ RefreshFails(r)
        \/ Admit(r)
        \/ Reject(r)
        \/ ProviderSucceeds(r)
        \/ ProviderFails(r)
        \/ InsertUsageLog(r)
        \/ SelectMonthlyUsage(r)
        \/ UpdateMonthlyUsage(r)
        \/ InsertMonthlyUsage(r)
        \/ UpdateUser(r)
        \/ WriteFails(r)

SpecSeq == Init /\ [][NextSeq]_vars

\* the steps of request r: each is the return, or the exception, of one call of
\* its handler
Handler(r) ==
    \/ GetCurrentUser(r)
    \/ AuthFails(r)
    \/ RefreshBillingPeriod(r)
    \/ RefreshFails(r)
    \/ Admit(r)
    \/ Reject(r)
    \/ ProviderSucceeds(r)
    \/ ProviderFails(r)
    \/ InsertUsageLog(r)
    \/ SelectMonthlyUsage(r)
    \/ UpdateMonthlyUsage(r)
    \/ InsertMonthlyUsage(r)
    \/ UpdateUser(r)
    \/ WriteFails(r)

NextLive == \E r \in Reqs : Handler(r)

\* the requests arrive on any date, in the month of the account, which has not
\* enough tokens left for any of them, or after it, when it has
NearlyUsed == {950}

InitLive ==
    /\ today \in Dates
    /\ \E id \in UserIds, q \in InitQuota, u \in NearlyUsed :
        /\ users = [i \in {id} |->
                      [id |-> i, monthly_quota_tokens |-> q,
                       used_tokens_this_period |-> u,
                       billing_period_start |-> isoformat(FirstPeriod)]]
        /\ usage_logs = InitLogs(id, u)
        /\ user_monthly_usage = InitUsage(id, u)
    /\ pc = [r \in Reqs |-> "start"]
    /\ text = [r \in Reqs |-> 0]
    /\ user = [r \in Reqs |-> NoUser]
    /\ est_tokens = [r \in Reqs |-> 0]
    /\ remaining = [r \in Reqs |-> 0]
    /\ new_used = [r \in Reqs |-> 0]
    /\ existing = [r \in Reqs |-> <<>>]
    /\ response = [r \in Reqs |-> NoResponse]
    /\ writes = [r \in Reqs |-> <<>>]

\* concurrent requests, every call of which eventually returns or raises; the
\* date does not change while they run
SpecLive ==
    /\ InitLive
    /\ [][NextLive]_vars
    /\ \A r \in Reqs : WF_vars(Handler(r))

\* the requests one at a time on an account that has room for more than one of
\* them, or for one
RoomyUsed == {800}

InitWithRoom ==
    /\ today = FirstDate
    /\ \E id \in UserIds, q \in InitQuota, u \in InitUsed \cup RoomyUsed :
        /\ users = [i \in {id} |->
                      [id |-> i, monthly_quota_tokens |-> q,
                       used_tokens_this_period |-> u,
                       billing_period_start |-> isoformat(FirstPeriod)]]
        /\ usage_logs = InitLogs(id, u)
        /\ user_monthly_usage = InitUsage(id, u)
    /\ pc = [r \in Reqs |-> "start"]
    /\ text = [r \in Reqs |-> 0]
    /\ user = [r \in Reqs |-> NoUser]
    /\ est_tokens = [r \in Reqs |-> 0]
    /\ remaining = [r \in Reqs |-> 0]
    /\ new_used = [r \in Reqs |-> 0]
    /\ existing = [r \in Reqs |-> <<>>]
    /\ response = [r \in Reqs |-> NoResponse]
    /\ writes = [r \in Reqs |-> <<>>]

SpecSeqWithRoom == InitWithRoom /\ [][NextSeq]_vars

\* ------------------------------------------- backend/main.py: the same handler
\* estimate_tokens of backend/main.py
backend_estimate_tokens(chars) ==
    LET ceil == (2 * chars + 2) \div 3
    IN  IF ceil > 1 THEN ceil ELSE 1

\* refresh_billing_period of backend/main.py
backend_refresh_billing_period(u, tbl, tdy) ==
    IF <<tdy.year, tdy.month>> #
         <<u.billing_period_start.year, u.billing_period_start.month>>
    THEN LET row == [tbl[u.user_row_id] EXCEPT
                       !.used_tokens_this_period = 0,
                       !.billing_period_start = isoformat(tdy)]
         IN  [user |-> [u EXCEPT !.used_tokens_this_period = 0,
                                 !.billing_period_start = tdy,
                                 !.monthly_quota_tokens = row.monthly_quota_tokens],
              users |-> [tbl EXCEPT ![u.user_row_id] = row],
              wrote |-> TRUE]
    ELSE [user |-> u, users |-> tbl, wrote |-> FALSE]

\* period_start of translate in backend/main.py
backend_period_start(u) ==
    isoformat(Date(u.billing_period_start.year, u.billing_period_start.month, 1))

\* HTTPException(status_code=..., detail=...) raised by translate in backend/main.py
HTTPException(status_code, rem, est) ==
    [NoResponse EXCEPT !.kind = IF status_code = 402 THEN "http_402" ELSE "http_500",
                       !.remaining = rem, !.requested = est]

\* what the HTTP caller of backend/main.py receives
backend_http_response(resp) ==
    CASE resp.kind = "ok" -> [status_code |-> 200, body |-> "TranslateResponse"]
      [] resp.kind = "http_402" -> [status_code |-> 402, body |-> "detail: quota"]
      [] resp.kind = "http_500" -> [status_code |-> 500, body |-> "detail: provider"]
      [] resp.kind = "persistence" ->
           [status_code |-> 500, body |-> "Internal Server Error"]
      [] OTHER -> [status_code |-> 0, body |-> ""]

BackendRefresh(r) ==
    /\ pc[r] = "authed"
    /\ LET res == backend_refresh_billing_period(user[r], users, today)
       IN  /\ users' = res.users
           /\ user' = [user EXCEPT ![r] = res.user]
           /\ writes' = [writes EXCEPT ![r] =
                           IF res.wrote
                           THEN Append(@, Write("users", "reset", 0, TRUE))
                           ELSE @]
    /\ pc' = [pc EXCEPT ![r] = "refreshed"]
    /\ UNCHANGED <<today, usage_logs, user_monthly_usage, text, est_tokens,
                   remaining, new_used, existing, response>>

BackendAdmit(r) ==
    /\ pc[r] = "refreshed"
    /\ LET est == backend_estimate_tokens(text[r])
           rem == user[r].monthly_quota_tokens - user[r].used_tokens_this_period
       IN  /\ ~(est > rem)
           /\ est_tokens' = [est_tokens EXCEPT ![r] = est]
           /\ remaining' = [remaining EXCEPT ![r] = rem]
    /\ pc' = [pc EXCEPT ![r] = "admitted"]
    /\ UNCHANGED <<today, store, text, user, new_used, existing, response, writes>>

BackendReject(r) ==
    /\ pc[r] = "refreshed"
    /\ LET est == backend_estimate_tokens(text[r])
           rem == user[r].monthly_quota_tokens - user[r].used_tokens_this_period
       IN  /\ est > rem
           /\ Return(r, "rejected", HTTPException(402, rem, est))
    /\ UNCHANGED <<today, store, writes>>

BackendProviderSucceeds(r) ==
    /\ pc[r] = "admitted"
    /\ new_used' = [new_used EXCEPT ![r] =
                      user[r].used_tokens_this_period + est_tokens[r]]
    /\ pc' = [pc EXCEPT ![r] = "provider_ok"]
    /\ UNCHANGED <<today, store, text, user, est_tokens, remaining, existing,
                   response, writes>>

BackendProviderFails(r) ==
    /\ pc[r] = "admitted"
    /\ Return(r, "provider_failed", HTTPException(500, 0, 0))
    /\ UNCHANGED <<today, store, writes>>

BackendInsertUsageLog(r) ==
    /\ pc[r] = "provider_ok"
    /\ usage_logs' = Append(usage_logs,
                            LogRow(user[r].user_row_id, text[r], est_tokens[r], r,
                                   backend_period_start(user[r])))
    /\ Wrote(r, "usage_logs", "insert", est_tokens[r])
    /\ pc' = [pc EXCEPT ![r] = "logged"]
    /\ UNCHANGED <<today, users, user_monthly_usage, locals, response>>

BackendSelectMonthlyUsage(r) ==
    /\ pc[r] = "logged"
    /\ existing' = [existing EXCEPT ![r] =
                      SelectSeq(user_monthly_usage,
                                LAMBDA row : /\ row.user_id = user[r].user_row_id
                                             /\ row.period_start =
                                                  backend_period_start(user[r]))]
    /\ pc' = [pc EXCEPT ![r] = "selected"]
    /\ UNCHANGED <<today, store, text, user, est_tokens, remaining, new_used,
                   response, writes>>

BackendUpdateMonthlyUsage(r) ==
    /\ pc[r] = "selected"
    /\ existing[r] # <<>>
    /\ LET row == existing[r][1]
       IN  user_monthly_usage' =
             [user_monthly_usage EXCEPT ![row.id] =
                [@ EXCEPT !.total_tokens = row.total_tokens + est_tokens[r],
                          !.total_requests = row.total_requests + 1,
                          !.updated_at = isoformat(today)]]
    /\ Wrote(r, "user_monthly_usage", "update", est_tokens[r])
    /\ pc' = [pc EXCEPT ![r] = "aggregated"]
    /\ UNCHANGED <<today, users, usage_logs, locals, response>>

BackendInsertMonthlyUsage(r) ==
    /\ pc[r] = "selected"
    /\ existing[r] = <<>>
    /\ user_monthly_usage' =
         Append(user_monthly_usage,
                UsageRow(Len(user_monthly_usage) + 1, user[r].user_row_id,
                         backend_period_start(user[r]), est_tokens[r], 1,
                         isoformat(today)))
    /\ Wrote(r, "user_monthly_usage", "insert", est_tokens[r])
    /\ pc' = [pc EXCEPT ![r] = "aggregated"]
    /\ UNCHANGED <<today, users, usage_logs, locals, response>>

BackendUpdateUser(r) ==
    /\ pc[r] = "aggregated"
    /\ users' = [users EXCEPT ![user[r].user_row_id].used_tokens_this_period =
                   new_used[r]]
    /\ Wrote(r, "users", "update", new_used[r])
    /\ Return(r, "committed",
              TranslateResponse(est_tokens[r],
                                user[r].monthly_quota_tokens - new_used[r]))
    /\ UNCHANGED <<today, usage_logs, user_monthly_usage>>

\* the steps of the handler of backend/main.py for request r
BackendHandler(r) ==
    \/ BackendRefresh(r)
    \/ BackendAdmit(r)
    \/ BackendReject(r)
    \/ BackendProviderSucceeds(r)
    \/ BackendProviderFails(r)
    \/ BackendInsertUsageLog(r)
    \/ BackendSelectMonthlyUsage(r)
    \/ BackendUpdateMonthlyUsage(r)
    \/ BackendInsertMonthlyUsage(r)
    \/ BackendUpdateUser(r)

\* the requests one at a time, each step of a request taken by either of the two
\* implementations
NextBoth ==
    \/ NextSeq
    \/ \E r \in Reqs : BackendHandler(r)

SpecBoth == Init /\ [][NextBoth]_vars

\* the requests one at a time, each with any Authorization header
NextAuth ==
    \/ NextSeq
    \/ \E r \in Reqs : (\A q \in Reqs : ~InFlight(q)) /\ AuthFails(r)

SpecAuth == Init /\ [][NextAuth]_vars

\* the quota gate alone, on texts of every length up to MaxChars: each request
\* is at the gate with its refreshed snapshot of an account that has used tokens
\* left for the short texts only, or for all of them
NearQuota == {995}

InitEstimate ==
    /\ today = FirstDate
    /\ \E id \in UserIds, q \in InitQuota, u \in InitUsed \cup NearQuota :
        /\ users = [i \in {id} |->
                      [id |-> i, monthly_quota_tokens |-> q,
                       used_tokens_this_period |-> u,
                       billing_period_start |-> isoformat(FirstPeriod)]]
        /\ usage_logs = InitLogs(id, u)
        /\ user_monthly_usage = InitUsage(id, u)
        /\ user = [r \in Reqs |-> AuthedUser(users[id])]
    /\ pc = [r \in Reqs |-> "refreshed"]
    /\ text \in [Reqs -> 0..MaxChars]
    /\ est_tokens = [r \in Reqs |-> 0]
    /\ remaining = [r \in Reqs |-> 0]
    /\ new_used = [r \in Reqs |-> 0]
    /\ existing = [r \in Reqs |-> <<>>]
    /\ response = [r \in Reqs |-> NoResponse]
    /\ writes = [r \in Reqs |-> <<>>]

NextEstimate == \E r \in Reqs : Admit(r) \/ Reject(r)

SpecEstimate == InitEstimate /\ [][NextEstimate]_vars

TypeOK ==
    /\ today \in Dates
    /\ \A id \in DOMAIN users : users[id].used_tokens_this_period \in Nat

\* ------------------------------------------------------ notions of the claims
\* the usage_logs rows request r inserted
LogRowsOf(r) == SelectSeq(usage_logs, LAMBDA row : row.request = r)

\* the ledger writes request r issued that succeeded: log insert, aggregate
\* upsert, account update (the reset of the refresh is no ledger write)
LedgerWrites(r) == SelectSeq(writes[r], LAMBDA w : w.ok /\ w.op # "reset")

\* the ledger writes request r attempted
LedgerAttempts(r) == SelectSeq(writes[r], LAMBDA w : w.op # "reset")

\* request r took the step that leads from position from to position to
Moved(r, from, to) == pc[r] = from /\ pc'[r] = to

\* the usage_logs rows of an account and a period
LogRowsIn(id, period) ==
    SelectSeq(usage_logs, LAMBDA row : row.user_id = id /\ row.period = period)

\* the largest estimate a request of the model can have
LargestEstimate ==
    CHOOSE e \in {estimate_tokens(n) : n \in TextLens} :
        \A n \in TextLens : estimate_tokens(n) <= e

\* ------------------------------------------------------------------- C1
\* C1: the quota gate admits the request if and only if its cost is at most
\* monthly_quota_tokens - used_tokens_this_period of the refreshed snapshot;
\* otherwise it rejects with a quota-insufficient error whose remaining is
\* quota - used and whose requested is the cost.
C1_QuotaGate ==
    [][\A r \in Reqs :
         (pc[r] = "refreshed" /\ pc'[r] # "refreshed") =>
            LET cost == estimate_tokens(text[r])
                left == user[r].monthly_quota_tokens - user[r].used_tokens_this_period
            IN  /\ pc'[r] \in {"admitted", "rejected"}
                /\ (cost <= left) <=> (pc'[r] = "admitted")
                /\ (cost > left) =>
                     /\ response'[r].kind = "quota"
                     /\ response'[r].remaining = left
                     /\ response'[r].requested = cost
                /\ (cost <= left) => response'[r].kind = "none"]_vars

\* scenario B: quota 1000, used 950, cost 100: rejected with remaining 50,
\* requested 100
C1_Witness ==
    \E r \in Reqs :
        /\ pc[r] = "rejected"
        /\ response[r] = QuotaInsufficient(50, 100)
        /\ \A id \in DOMAIN users :
            users[id].monthly_quota_tokens - users[id].used_tokens_this_period = 50

\* ------------------------------------------------------------------- C2
\* the log insert of request r appends one row, the only one of r, with its estimate
C2_LogStep(r) ==
    Moved(r, "provider_ok", "logged") =>
        /\ Len(usage_logs') = Len(usage_logs) + 1
        /\ Len(LogRowsOf(r)) = 0
        /\ Len(LogRowsOf(r)') = 1
        /\ LogRowsOf(r)'[1].estimated_tokens = estimate_tokens(text[r])
        /\ LogRowsOf(r)'[1].user_id = user[r].user_row_id

\* the upsert of request r adds its estimate and 1 to the stored row of its account
\* and period, or creates that row; the rows of other periods stay
C2_UsageStep(r) ==
    Moved(r, "selected", "aggregated") =>
        LET id == user[r].user_row_id
            period == period_start(user[r])
            before == select_usage(user_monthly_usage, id, period)
            after == select_usage(user_monthly_usage', id, period)
            est == estimate_tokens(text[r])
        IN  /\ Len(before) <= 1
            /\ Len(after) = 1
            /\ before = <<>> =>
                 /\ after[1].total_tokens = est
                 /\ after[1].total_requests = 1
                 /\ Len(user_monthly_usage') = Len(user_monthly_usage) + 1
            /\ before # <<>> =>
                 /\ after[1].total_tokens = before[1].total_tokens + est
                 /\ after[1].total_requests = before[1].total_requests + 1
                 /\ Len(user_monthly_usage') = Len(user_monthly_usage)
            /\ \A i \in 1..Len(user_monthly_usage) :
                 user_monthly_usage[i].period_start # period =>
                    user_monthly_usage'[i] = user_monthly_usage[i]

\* the account update of request r stores used_before + estimate, and the request
\* returns quota - (used_before + estimate)
C2_AccountStep(r) ==
    Moved(r, "aggregated", "committed") =>
        LET id == user[r].user_row_id
            used_before == users[id].used_tokens_this_period
            quota == users[id].monthly_quota_tokens
            est == estimate_tokens(text[r])
        IN  /\ users'[id].used_tokens_this_period = used_before + est
            /\ response'[r].kind = "ok"
            /\ response'[r].estimated_tokens = est
            /\ response'[r].remaining_tokens = quota - (used_before + est)
            /\ Len(LogRowsOf(r)') = 1
            /\ Len(LedgerWrites(r)') = 3

\* C2: when the requests run one at a time, a request that is admitted, whose
\* provider call succeeds and whose three writes succeed appends exactly one log
\* row with its estimate, adds its estimate and 1 to the aggregate row of its
\* account and period (or creates the row with its estimate and 1), stores
\* used_before + estimate and returns quota - (used_before + estimate).
C2_Commit ==
    [][\A r \in Reqs : C2_LogStep(r) /\ C2_UsageStep(r) /\ C2_AccountStep(r)]_vars

\* used 900, estimate 80: the request returns 20 and leaves used 980, two log rows
\* and the aggregate row at 980 tokens, 2 requests
C2_Witness ==
    \E r \in Reqs, id \in DOMAIN users :
        /\ pc[r] = "committed"
        /\ response[r] = TranslateResponse(80, 20)
        /\ users[id].used_tokens_this_period = 980
        /\ Len(usage_logs) = 2
        /\ Len(LogRowsOf(r)) = 1
        /\ Len(user_monthly_usage) = 1
        /\ user_monthly_usage[1].total_tokens = 980
        /\ user_monthly_usage[1].total_requests = 2

\* ------------------------------------------------------------------- C3
\* C3: a request that ends rejected or with a provider failure has issued no
\* ledger write: it attempted none, no log row is its own, and neither the quota
\* gate nor the failing step changes a table.
C3_NoLedgerWrite ==
    [][\A r \in Reqs :
         /\ pc'[r] \in {"rejected", "provider_failed"} =>
              /\ LedgerAttempts(r)' = <<>>
              /\ LogRowsOf(r)' = <<>>
              /\ pc[r] # pc'[r] => UNCHANGED store
         /\ Moved(r, "refreshed", "admitted") => UNCHANGED store]_vars

\* a provider failure, and the ledger of the start untouched
C3_Witness ==
    \E r \in Reqs, id \in DOMAIN users :
        /\ pc[r] = "provider_failed"
        /\ response[r].kind = "provider"
        /\ users[id].used_tokens_this_period = 900
        /\ usage_logs = InitLogs(id, 900)
        /\ user_monthly_usage = InitUsage(id, 900)

\* ------------------------------------------------------------------- C4
\* scenario D: two requests of 80 tokens, each admitted with 100 tokens remaining
\* in its snapshot, have both committed, and no other request has arrived
ScenarioD(r1, r2) ==
    /\ r1 # r2
    /\ \A r \in {r1, r2} :
        /\ pc[r] = "committed"
        /\ response[r] = TranslateResponse(80, 20)
    /\ \A r \in Reqs \ {r1, r2} : pc[r] = "start"

\* C4 as claimed: after the two requests of scenario D have committed, the stored
\* used_tokens_this_period exceeds monthly_quota_tokens by 60.
C4_StoredExceedsBy60 ==
    \A r1, r2 \in Reqs, id \in DOMAIN users :
        ScenarioD(r1, r2) =>
            users[id].used_tokens_this_period = users[id].monthly_quota_tokens + 60

\* C4 as amended: both requests of scenario D are admitted and commit, and after it
\* the stored used_tokens_this_period is quota - 20 (the second account write
\* overwrites the first), while the logged usage of the period exceeds the quota
\* by 60.
C4_StoredLosesOneUpdate ==
    \A r1, r2 \in Reqs, id \in DOMAIN users :
        ScenarioD(r1, r2) =>
            /\ users[id].used_tokens_this_period = users[id].monthly_quota_tokens - 20
            /\ Len(LogRowsOf(r1)) = 1
            /\ Len(LogRowsOf(r2)) = 1
            /\ SumTokens(usage_logs) = users[id].monthly_quota_tokens + 60

C4_Witness ==
    \E r1, r2 \in Reqs : ScenarioD(r1, r2)

\* ------------------------------------------------------------------- C5
\* C5: the stored used_tokens_this_period is a non-negative integer and exceeds
\* monthly_quota_tokens by at most one request's estimate.
C5_UsedBounded ==
    \A id \in DOMAIN users :
        /\ users[id].used_tokens_this_period \in Nat
        /\ users[id].used_tokens_this_period
             <= users[id].monthly_quota_tokens + LargestEstimate

\* two requests admitted on the same snapshot have both committed, and the account
\* is at its quota
C5_Witness ==
    \E r1, r2 \in Reqs, id \in DOMAIN users :
        /\ r1 # r2
        /\ response[r1] = TranslateResponse(100, 0)
        /\ response[r2] = TranslateResponse(100, 0)
        /\ users[id].used_tokens_this_period = users[id].monthly_quota_tokens

\* ------------------------------------------------------------------- C6
\* C6: right after the refresh of a request on the date today, billing_period_start
\* is in the (year, month) of today in the snapshot it returns and in the store;
\* and if billing_period_start changed, used_tokens_this_period is 0 in both.
C6_Refreshed ==
    [][\A r \in Reqs :
         Moved(r, "authed", "refreshed") =>
            LET id == user[r].user_row_id
                stored == fromisoformat(users[id].billing_period_start)
                stored2 == fromisoformat(users'[id].billing_period_start)
                snap == user[r].billing_period_start
                snap2 == user'[r].billing_period_start
            IN  /\ <<snap2.year, snap2.month>> = <<today.year, today.month>>
                /\ <<stored2.year, stored2.month>> = <<today.year, today.month>>
                /\ (snap2 # snap \/ stored2 # stored) =>
                     /\ user'[r].used_tokens_this_period = 0
                     /\ users'[id].used_tokens_this_period = 0]_vars

\* a request whose refresh reset the period
C6_Witness ==
    \E r \in Reqs, id \in DOMAIN users :
        /\ pc[r] = "refreshed"
        /\ writes[r] = <<Write("users", "reset", 0, TRUE)>>
        /\ user[r].billing_period_start = Date(2026, 1, 15)
        /\ user[r].used_tokens_this_period = 0
        /\ users[id].billing_period_start = isoformat(Date(2026, 1, 15))

\* ------------------------------------------------------------------- C7
\* C7: a refresh of a snapshot whose billing_period_start is in the (year, month) of
\* today writes nothing and returns the snapshot unchanged; and a second refresh
\* right after any refresh writes nothing and returns the same snapshot.
C7_RefreshIdempotent ==
    [][\A r \in Reqs :
         Moved(r, "authed", "refreshed") =>
            LET snap == user[r].billing_period_start
                again == refresh_billing_period(user'[r], users', today')
            IN  /\ <<snap.year, snap.month>> = <<today.year, today.month>> =>
                     /\ users' = users
                     /\ user'[r] = user[r]
                     /\ writes'[r] = writes[r]
                /\ ~again.wrote
                /\ again.user = user'[r]
                /\ again.users = users']_vars

\* a refresh that wrote nothing, on a later day of the month of the snapshot
C7_Witness ==
    \E r \in Reqs :
        /\ pc[r] = "refreshed"
        /\ writes[r] = <<>>
        /\ user[r].billing_period_start = Date(2025, 12, 1)
        /\ today = Date(2025, 12, 20)

\* ------------------------------------------------------------------- C8
\* C8: there is at most one user_monthly_usage row for each (user, period_start).
C8_OneRowPerPeriod ==
    \A i, j \in 1..Len(user_monthly_usage) :
        (/\ user_monthly_usage[i].user_id = user_monthly_usage[j].user_id
         /\ user_monthly_usage[i].period_start = user_monthly_usage[j].period_start)
            => i = j

\* ------------------------------------------------------------------- C9
\* no request is in flight and no store write has raised
Quiescent == \A r \in Reqs : ~InFlight(r) /\ pc[r] # "persist_failed"

\* C9: whenever no request is in flight and no store write has failed, every
\* aggregate row has as total_tokens the sum of the estimates of the log rows of
\* its user and period and as total_requests their number, and every log row has
\* such an aggregate row.
C9_AggregateMatchesLog ==
    Quiescent =>
        /\ \A i \in 1..Len(user_monthly_usage) :
            LET row == user_monthly_usage[i]
                logs == LogRowsIn(row.user_id, row.period_start)
            IN  /\ row.total_tokens = SumTokens(logs)
                /\ row.total_requests = Len(logs)
        /\ \A k \in 1..Len(usage_logs) :
            select_usage(user_monthly_usage, usage_logs[k].user_id,
                         usage_logs[k].period) # <<>>

\* ------------------------------------------------------------------- C10
\* request r was admitted and its provider call succeeded (seen once it has ended)
AdmittedAndTranslated(r) ==
    \/ pc[r] = "committed"
    \/ pc[r] = "persist_failed" /\ LedgerAttempts(r) # <<>>

\* C10 as claimed: a request that has ended has exactly one log row if it was
\* admitted and its provider call succeeded, and none otherwise.
C10_OncePerTranslated ==
    \A r \in Reqs :
        pc[r] \in Terminal =>
            Len(LogRowsOf(r)) = IF AdmittedAndTranslated(r) THEN 1 ELSE 0

\* the log insert of request r has succeeded
LogInserted(r) ==
    \/ pc[r] \in {"logged", "selected", "aggregated", "committed"}
    \/ /\ pc[r] = "persist_failed"
       /\ LedgerAttempts(r) # <<>>
       /\ LedgerAttempts(r)[1] = Write("usage_logs", "insert", LedgerAttempts(r)[1].tokens, TRUE)

\* C10 as amended: a log row is created exactly once for each request that was
\* admitted, whose provider call succeeded and whose log insert did not raise, and
\* for no other request; and no step changes or removes a row of the log.
C10_AppendOnlyOncePerInsert ==
    [][/\ Len(usage_logs') >= Len(usage_logs)
       /\ \A i \in 1..Len(usage_logs) : usage_logs'[i] = usage_logs[i]
       /\ \A r \in Reqs :
            Len(LogRowsOf(r)') = IF LogInserted(r)' THEN 1 ELSE 0]_vars

\* one request has committed and has its row; the log insert of another raised,
\* and it has none
C10_Witness ==
    \E r, q \in Reqs :
        /\ pc[r] = "committed"
        /\ Len(LogRowsOf(r)) = 1
        /\ pc[q] = "persist_failed"
        /\ writes[q] = <<Write("usage_logs", "insert", 80, FALSE)>>
        /\ LogRowsOf(q) = <<>>

\* ------------------------------------------------------------------- C11
\* C11: the stored billing_period_start of every account is the first day of a
\* month, in every state, also after the reset of a refresh.
C11_PeriodStartIsFirstOfMonth ==
    \A id \in DOMAIN users :
        fromisoformat(users[id].billing_period_start).day = 1

\* ------------------------------------------------------------------- C12
\* the least integer that is at least n / 1.5
CeilOfTwoThirds(n) == CHOOSE k \in 0..n : 3 * k >= 2 * n /\ 3 * (k - 1) < 2 * n

\* the cost the quota gate computed for request r: the estimate it keeps when it
\* admits, the requested figure of its error when it rejects
CostOf(r) == IF pc[r] = "admitted" THEN est_tokens[r] ELSE response[r].requested

\* C12: the estimate of a text of n characters is max(1, ceil(n / 1.5)); it is at
\* least 1, two texts of the same length have the same estimate, and a longer text
\* never has a smaller estimate.
C12_Estimate ==
    [][/\ \A r \in Reqs :
            (pc[r] = "refreshed" /\ pc'[r] # "refreshed") =>
                /\ CostOf(r)' = Max(1, CeilOfTwoThirds(text[r]))
                /\ CostOf(r)' >= 1
       /\ \A r, q \in Reqs :
            (pc'[r] = "admitted" /\ pc'[q] = "admitted") =>
                /\ text'[r] = text'[q] => est_tokens'[r] = est_tokens'[q]
                /\ text'[r] <= text'[q] => est_tokens'[r] <= est_tokens'[q]]_vars

\* an empty text estimated at 1, and texts of 10 and 11 characters at 7 and 8
C12_Witness ==
    \E r, q \in Reqs :
        /\ pc[r] = "admitted" /\ text[r] = 0 /\ est_tokens[r] = 1
        /\ \/ pc[q] = "admitted" /\ text[q] = 10 /\ est_tokens[q] = 7
           \/ pc[q] = "rejected" /\ response[q].requested = 8

\* ------------------------------------------------------------------- C13
\* the ways a request fails, by the position the handler ended at, and the kind of
\* error each must reach the caller as
FailureKind ==
    [auth_failed |-> "auth", rejected |-> "quota", provider_failed |-> "provider",
     persist_failed |-> "persistence"]

Failed(r) == pc[r] \in DOMAIN FailureKind

C14_AuthFailureBeforeStore ==
    [][\A r \in Reqs :
         (pc'[r] = "auth_failed" /\ pc[r] # "auth_failed") =>
            /\ pc[r] = "start"
            /\ UNCHANGED store
            /\ DOMAIN users' = DOMAIN users
            /\ writes'[r] = <<>>
            /\ LogRowsOf(r)' = <<>>
            /\ response'[r] = AuthFailure]_vars

\* a request failed authentication after another had committed: the ledger is the
\* one that request left
C14_Witness ==
    \E r, q \in Reqs, id \in DOMAIN users :
        /\ pc[q] = "committed"
        /\ pc[r] = "auth_failed"
        /\ q < r
        /\ http_response(response[r]).status_code = 401
        /\ users[id].used_tokens_this_period = 980
        /\ Len(usage_logs) = 2

\* ------------------------------------------------------------------- C15
\* the positions a request can be at right after each position
Successors ==
    [start |-> {"authed", "auth_failed"},
     authed |-> {"refreshed", "persist_failed"},
     refreshed |-> {"admitted", "rejected"},
     admitted |-> {"provider_ok", "provider_failed"},
     provider_ok |-> {"logged", "persist_failed"},
     logged |-> {"selected"},
     selected |-> {"aggregated", "persist_failed"},
     aggregated |-> {"committed", "persist_failed"},
     auth_failed |-> {}, rejected |-> {}, provider_failed |-> {},
     persist_failed |-> {}, committed |-> {}]

\* the tables of the ledger writes request r issued, in the order it issued them
RECURSIVE TablesOf(_)
TablesOf(ws) == IF ws = <<>> THEN <<>> ELSE <<Head(ws).table>> \o TablesOf(Tail(ws))

\* C15: every request goes from start through the refresh, the estimate and quota
\* gate (rejected or admitted), the provider call (failed or succeeded) and the
\* three writes, in that order and never back; the reset of the refresh is the
\* first write of the request and is issued before the gate; no cost is estimated
\* before the refresh; the provider is called only from the admitted position; and
\* the success response, with remaining_tokens, is given only once the log insert,
\* the aggregate upsert and the account update have been issued.
C15_Ordering ==
    [][\A r \in Reqs :
         /\ pc'[r] # pc[r] => pc'[r] \in Successors[pc[r]]
         /\ pc'[r] \in {"provider_ok", "provider_failed"} /\ pc'[r] # pc[r]
              => pc[r] = "admitted" /\ est_tokens[r] <= remaining[r]
         /\ pc'[r] \in {"start", "authed", "refreshed"} => est_tokens'[r] = 0
         /\ \A i \in 1..Len(writes'[r]) : writes'[r][i].op = "reset" => i = 1
         /\ (writes[r] = <<>> /\ writes'[r] # <<>> /\ writes'[r][1].op = "reset")
              => pc[r] = "authed"
         /\ Moved(r, "refreshed", "admitted") \/ Moved(r, "refreshed", "rejected")
              => LedgerAttempts(r) = <<>>
         /\ response'[r].kind = "ok" =>
              TablesOf(LedgerAttempts(r)') = <<"usage_logs", "user_monthly_usage", "users">>
         /\ response'[r].kind = "ok" <=> pc'[r] = "committed"]_vars

\* a request that reset the period, was admitted and committed: its four writes
C15_Witness ==
    \E r \in Reqs :
        /\ pc[r] = "committed"
        /\ response[r] = TranslateResponse(80, 920)
        /\ writes[r] = <<Write("users", "reset", 0, TRUE),
                         Write("usage_logs", "insert", 80, TRUE),
                         Write("user_monthly_usage", "insert", 80, TRUE),
                         Write("users", "update", 80, TRUE)>>

\* ------------------------------------------------------------------- C16
\* the order of the ledger writes of a commit
CommitOrder == <<"usage_logs", "user_monthly_usage", "users">>

\* C16: the ledger writes a request has issued are, in order, the log insert, the
\* aggregate upsert and the account update, or a beginning of that list; a write
\* that raised is the last write of its request, which ends as a persistence
\* failure; and a request whose log insert raised has issued no aggregate write and
\* no account write and has no log row.
C16_WriteOrder ==
    \A r \in Reqs :
        LET a == LedgerAttempts(r)
        IN  /\ Len(a) <= Len(CommitOrder)
            /\ TablesOf(a) = SubSeq(CommitOrder, 1, Len(a))
            /\ \A i \in 1..Len(writes[r]) :
                 ~writes[r][i].ok => i = Len(writes[r]) /\ pc[r] = "persist_failed"
            /\ (a # <<>> /\ ~a[1].ok) => Len(a) = 1 /\ LogRowsOf(r) = <<>>

\* one request ended at its failed log insert, another at its failed aggregate
\* upsert, after its log insert
C16_Witness ==
    \E r, q \in Reqs :
        /\ pc[r] = "persist_failed"
        /\ LedgerAttempts(r) = <<Write("usage_logs", "insert", 80, FALSE)>>
        /\ pc[q] = "persist_failed"
        /\ LedgerAttempts(q) = <<Write("usage_logs", "insert", 80, TRUE),
                                 Write("user_monthly_usage", "update", 80, FALSE)>>
        /\ \A id \in DOMAIN users : users[id].used_tokens_this_period = 900

\* ------------------------------------------------------------------- C17
\* the commit of request r failed in part: its log insert succeeded and a later
\* write of it (the aggregate upsert or the account update) raised
PartialFailure(r) ==
    /\ pc[r] = "persist_failed"
    /\ LedgerAttempts(r) # <<>>
    /\ LedgerAttempts(r)[1].ok

\* the period the stored account row is in: the first day of the month of its
\* billing_period_start
CurrentPeriod(id) ==
    LET bps == fromisoformat(users[id].billing_period_start)
    IN  isoformat(Date(bps.year, bps.month, 1))

\* C17: in a state where the commit of some request has failed in part, the stored
\* used_tokens_this_period of every account is at most the sum of the estimates
\* of its log rows of the current period, and so is the total_tokens of every
\* aggregate row of the account for that period.
C17_NeverOverstated ==
    (\E r \in Reqs : PartialFailure(r)) =>
        \A id \in DOMAIN users :
            LET logged == SumTokens(LogRowsIn(id, CurrentPeriod(id)))
                rows == select_usage(user_monthly_usage, id, CurrentPeriod(id))
            IN  /\ users[id].used_tokens_this_period <= logged
                /\ \A i \in 1..Len(rows) : rows[i].total_tokens <= logged

\* ------------------------------------------------------------------- C18
\* C18: a refresh that runs when the stored billing_period_start of its account is
\* already in the (year, month) of today leaves the stored
\* used_tokens_this_period as it is, whatever the snapshot of the request.
C18_RefreshKeepsNewUsage ==
    [][\A r \in Reqs :
         Moved(r, "authed", "refreshed") =>
            LET id == user[r].user_row_id
                stored == fromisoformat(users[id].billing_period_start)
            IN  <<stored.year, stored.month>> = <<today.year, today.month>> =>
                    users'[id].used_tokens_this_period =
                        users[id].used_tokens_this_period]_vars

\* ------------------------------------------------------------------- C19
\* C19: the aggregate upsert of a request writes no row but one, of its account,
\* whose period_start is the first day of the (year, month) of the refreshed
\* billing_period_start of the request; so every aggregate row has a period_start
\* that is the first day of a month, and when the request has reset the period in
\* the middle of a month its billing_period_start and the period_start of the row
\* differ in the day only.
C19_AggregatePeriod ==
    [][\A r \in Reqs :
         Moved(r, "selected", "aggregated") =>
            LET bps == user[r].billing_period_start
                written == {i \in 1..Len(user_monthly_usage') :
                              \/ i > Len(user_monthly_usage)
                              \/ user_monthly_usage'[i] # user_monthly_usage[i]}
            IN  /\ Cardinality(written) <= 1
                /\ existing[r] = <<>> => written = {Len(user_monthly_usage) + 1}
                /\ \A i \in written :
                     LET row == fromisoformat(user_monthly_usage'[i].period_start)
                     IN  /\ user_monthly_usage'[i].user_id = user[r].user_row_id
                         /\ row.day = 1
                         /\ <<row.year, row.month>> = <<bps.year, bps.month>>
                         /\ (writes[r] # <<>> /\ writes[r][1].op = "reset") =>
                              /\ bps = today \/ DateBefore(bps, today)
                              /\ bps.day # 1 => row # bps
                /\ \A i \in 1..Len(user_monthly_usage') :
                     fromisoformat(user_monthly_usage'[i].period_start).day = 1]_vars

\* a request that reset the period on 2026-01-15 has written the row of 2026-01-01
C19_Witness ==
    \E r \in Reqs, i \in 1..Len(user_monthly_usage) :
        /\ pc[r] = "aggregated"
        /\ user[r].billing_period_start = Date(2026, 1, 15)
        /\ user_monthly_usage[i].period_start = isoformat(Date(2026, 1, 1))
        /\ user_monthly_usage[i].total_tokens = est_tokens[r]
        /\ \E id \in DOMAIN users :
             users[id].billing_period_start = isoformat(Date(2026, 1, 15))

\* ------------------------------------------------------------------- C20
\* the used_tokens_this_period of the snapshot of a committed request, from what
\* it was answered (its quota is that of the account, which no step changes)
SnapshotUsedOf(q, id) ==
    users[id].monthly_quota_tokens - response[q].remaining_tokens
        - response[q].estimated_tokens

\* C20: the account update of a request stores the used_tokens_this_period of its
\* snapshot plus its own estimate, whatever is stored, and that value is at most
\* the monthly_quota_tokens of the snapshot; the quota being unchanged, the stored
\* used_tokens_this_period never exceeds the quota and every remaining_tokens
\* answered is >= 0.  When an earlier request with the same snapshot has committed,
\* the value stored is still snapshot + own estimate, not the sum of both
\* increments, and the log holds the row of each.
C20_SnapshotPlusEstimate ==
    [][/\ \A r \in Reqs :
            Moved(r, "aggregated", "committed") =>
                LET id == user[r].user_row_id
                    value == user[r].used_tokens_this_period + est_tokens[r]
                IN  /\ users'[id].used_tokens_this_period = value
                    /\ value <= user[r].monthly_quota_tokens
                    /\ est_tokens[r] >= 1
                    /\ response'[r].remaining_tokens =
                         user[r].monthly_quota_tokens - value
                    /\ \A q \in Reqs \ {r} :
                         (/\ pc[q] = "committed"
                          /\ SnapshotUsedOf(q, id) = user[r].used_tokens_this_period)
                            => /\ users'[id].used_tokens_this_period
                                    < user[r].used_tokens_this_period
                                        + response[q].estimated_tokens + est_tokens[r]
                               /\ Len(LogRowsOf(q)') = 1
                               /\ Len(LogRowsOf(r)') = 1
       /\ \A id \in DOMAIN users :
            /\ users'[id].monthly_quota_tokens = users[id].monthly_quota_tokens
            /\ users'[id].used_tokens_this_period <= users'[id].monthly_quota_tokens
       /\ \A r \in Reqs :
            response'[r].kind = "ok" => response'[r].remaining_tokens >= 0]_vars

\* two requests of 80 and 100 tokens read the snapshot with used 900 and both
\* committed, the one of 80 tokens last: 980 is stored, the log holds 1080
C20_Witness ==
    \E r, q \in Reqs, id \in DOMAIN users :
        /\ response[r] = TranslateResponse(80, 20)
        /\ response[q] = TranslateResponse(100, 0)
        /\ users[id].used_tokens_this_period = 980
        /\ Len(LogRowsOf(r)) = 1
        /\ Len(LogRowsOf(q)) = 1
        /\ SumTokens(usage_logs) = 1080

\* ------------------------------------------------------------------- C21
\* the tokens the account had used at the start: its log rows of no request
UsedAtStart(id) ==
    SumTokens(SelectSeq(usage_logs, LAMBDA row : row.user_id = id /\ row.request = 0))

\* the sum of the estimates the committed requests among rs were answered
RECURSIVE CommittedTokens(_)
CommittedTokens(rs) ==
    IF rs = {} THEN 0
    ELSE LET r == CHOOSE x \in rs : TRUE
         IN  (IF pc[r] = "committed" THEN response[r].estimated_tokens ELSE 0)
                + CommittedTokens(rs \ {r})

\* C21: with the requests one at a time, as long as the month of the start lasts
\* and no write has raised, whenever no request is in flight the stored
\* used_tokens_this_period is its value at the start plus the sum of the estimates
\* of the committed requests, it is at most monthly_quota_tokens, and the
\* total_tokens of the aggregate row of the period has grown by as much.
C21_SequentialLedger ==
    (/\ <<today.year, today.month>> = <<FirstPeriod.year, FirstPeriod.month>>
     /\ Quiescent) =>
        \A id \in DOMAIN users :
            LET rows == select_usage(user_monthly_usage, id, isoformat(FirstPeriod))
                used == users[id].used_tokens_this_period
            IN  /\ used = UsedAtStart(id) + CommittedTokens(Reqs)
                /\ used <= users[id].monthly_quota_tokens
                /\ Len(rows) = 1
                /\ rows[1].total_tokens - UsedAtStart(id) = used - UsedAtStart(id)
                /\ rows[1].total_requests = 1 + Cardinality({r \in Reqs : pc[r] = "committed"})

\* two requests of 80 and 100 tokens committed one after the other on used 800:
\* used and the aggregate are at 980
C21_Witness ==
    \E r, q \in Reqs, id \in DOMAIN users :
        /\ response[r] = TranslateResponse(80, 120)
        /\ response[q] = TranslateResponse(100, 20)
        /\ users[id].used_tokens_this_period = 980
        /\ user_monthly_usage[1].total_tokens = 980
        /\ user_monthly_usage[1].total_requests = 3
        /\ today = FirstDate

\* ------------------------------------------------------------------- C22
\* C22: in every state the stored used_tokens_this_period of an account is at most
\* the sum of the estimates of the log rows of the requests whose refreshed period
\* is the stored period of the account: no account write carries usage of the
\* previous period into a period that a reset has opened.
C22_NoCarryOver ==
    \A id \in DOMAIN users :
        users[id].used_tokens_this_period
            <= SumTokens(LogRowsIn(id, CurrentPeriod(id)))

\* ------------------------------------------------------------------- C23
\* C23: the users table holds at most one row for the identity of the requests,
\* and exactly one once a request of that identity has been authenticated.
C23_OneAccountPerIdentity ==
    /\ Cardinality(select_users(users, AuthUserId)) <= 1
    /\ (\E r \in Reqs : pc[r] \in {"authed", "usage_returned"}) =>
            Cardinality(select_users(users, AuthUserId)) = 1

\* ------------------------------------------------------------------- C24
\* C24: a usage query whose account exists changes no table in any of its steps
\* and issues no write; it answers with the monthly_quota_tokens,
\* used_tokens_this_period and billing_period_start of the row it read, also when
\* the month has changed since (it does not refresh the period), and with
\* remaining_tokens = monthly_quota_tokens - used_tokens_this_period.
C24_UsageQueryReadsOnly ==
    [][\A r \in Reqs :
         /\ Moved(r, "start", "authed") =>
              /\ UNCHANGED store
              /\ \E i \in select_users(users, AuthUserId) :
                   user'[r] = AuthedUser(users[i])
         /\ (Moved(r, "authed", "usage_returned") /\ writes[r] = <<>>) =>
              /\ UNCHANGED store
              /\ writes'[r] = <<>>
              /\ response'[r].monthly_quota_tokens = user[r].monthly_quota_tokens
              /\ response'[r].used_tokens_this_period = user[r].used_tokens_this_period
              /\ response'[r].billing_period_start = isoformat(user[r].billing_period_start)
              /\ response'[r].remaining_tokens =
                   user[r].monthly_quota_tokens - user[r].used_tokens_this_period]_vars

\* a usage query answered in January 2026 with the period of December 2025 and
\* 100 tokens remaining; the stored row is as it was
C24_Witness ==
    \E r \in Reqs, i \in DOMAIN users :
        /\ pc[r] = "usage_returned"
        /\ today = Date(2026, 1, 15)
        /\ response[r].billing_period_start = isoformat(FirstPeriod)
        /\ response[r].used_tokens_this_period = 900
        /\ response[r].remaining_tokens = 100
        /\ users[i] = UserRow(i, AuthUserId, 1000, 900, isoformat(FirstPeriod))

\* ------------------------------------------------------------------- C25
\* C25: if every call of a handler eventually returns or raises, every request
\* eventually ends, whatever the other requests do, in one of the outcomes
\* authentication failure, rejected, provider failure, persistence failure or
\* committed, and stays with that outcome.
C25_Terminates ==
    /\ \A r \in Reqs : <>[](pc[r] \in Terminal)
    /\ [][\A r \in Reqs : pc[r] \in Terminal =>
            pc'[r] = pc[r] /\ response'[r] = response[r]]_vars

\* all requests have ended, in different outcomes, one of them committed after
\* another had failed at the provider
C25_Witness ==
    /\ \A r \in Reqs : pc[r] \in Terminal
    /\ \E r, q \in Reqs : r < q /\ pc[r] = "provider_failed" /\ pc[q] = "committed"

\* ------------------------------------------------------------------- C26
\* C26: from every state, each step of the handler of the api (service and route)
\* and the same step of the handler of backend/main.py lead to the same state:
\* the same store write with the same values, the same locals, the same position;
\* and where they end with an error they give the same HTTP outcome, 402 with
\* the same remaining and requested figures or 500 for the provider, and change
\* no table.
C26_SameWritesAndOutcome ==
    [][\A r \in Reqs :
         /\ RefreshBillingPeriod(r) <=> BackendRefresh(r)
         /\ Admit(r) <=> BackendAdmit(r)
         /\ ProviderSucceeds(r) <=> BackendProviderSucceeds(r)
         /\ InsertUsageLog(r) <=> BackendInsertUsageLog(r)
         /\ SelectMonthlyUsage(r) <=> BackendSelectMonthlyUsage(r)
         /\ UpdateMonthlyUsage(r) <=> BackendUpdateMonthlyUsage(r)
         /\ InsertMonthlyUsage(r) <=> BackendInsertMonthlyUsage(r)
         /\ UpdateUser(r) <=> BackendUpdateUser(r)
         /\ UpdateUser(r) =>
              http_response(response'[r]) = backend_http_response(response'[r])
         /\ Moved(r, "refreshed", "rejected") =>
              LET api == QuotaInsufficient(Remaining(user[r]), estimate_tokens(text[r]))
                  rem == user[r].monthly_quota_tokens - user[r].used_tokens_this_period
                  backend == HTTPException(402, rem, backend_estimate_tokens(text[r]))
              IN  /\ response'[r] \in {api, backend}
                  /\ http_response(api) = backend_http_response(backend)
                  /\ http_response(api).status_code = 402
                  /\ api.remaining = backend.remaining
                  /\ api.requested = backend.requested
                  /\ api.requested > api.remaining
                  /\ UNCHANGED <<store, writes>>
         /\ Moved(r, "admitted", "provider_failed") =>
              LET api == [NoResponse EXCEPT !.kind = "provider"]
                  backend == HTTPException(500, 0, 0)
              IN  /\ response'[r] \in {api, backend}
                  /\ http_response(api) = backend_http_response(backend)
                  /\ http_response(api).status_code = 500
                  /\ UNCHANGED <<store, writes>>]_vars

\* two requests of 150 characters on the account with 50 tokens left, one
\* rejected by the api and one by backend/main.py, with the same 402; and no table
\* has changed
C26_Witness ==
    \E r, q \in Reqs, id \in DOMAIN users :
        /\ response[r] = QuotaInsufficient(50, 100)
        /\ response[q] = HTTPException(402, 50, 100)
        /\ http_response(response[r]) = backend_http_response(response[q])
        /\ users[id].used_tokens_this_period = 950
        /\ usage_logs = InitLogs(id, 950)

====
